---- MODULE Spec2Model ----
(***************************************************************************)
(* Workshop marketplace client: the browsing page (src/app/workshops/      *)
(* page.tsx), the vendor dashboard (src/app/vendor/page.tsx) and the       *)
(* store actions (src/firebase/workshopActions.ts), over a document store  *)
(* with the collections "workshops", "users" and "registrations".          *)
(*                                                                         *)
(* Optional fields (rating?, ratingCount?, ratings?) are sets of at most   *)
(* one element: {} is "absent", {x} is "present with value x".             *)
(* A rating average is the quotient sum / length kept as the pair          *)
(* [num, den]; two quotients are compared by cross multiplication.         *)
(* A ratings map is a JavaScript object: the page's records and the        *)
(* running handleRate calls hold references into heap[c].                  *)
(***************************************************************************)
EXTENDS Integers, Sequences, FiniteSets, TLC

VARIABLES
    dbWorkshops,      \* collection "workshops": document id -> document
    dbUsers,          \* collection "users": uid -> [favorites, registeredWorkshops]
    dbRegistrations,  \* collection "registrations": sequence of documents
    created,          \* number of workshop documents addDoc has created
    user,             \* useAuth().user of each browsing page: a uid or NoUser
    userData,         \* useAuth().userData of each page: {} or {copy of the user document}
    workshops,        \* useState workshops of each browsing page
    heap,             \* the ratings objects each page's records and calls refer to
    calls,            \* writes awaited by each page's handlers, oldest first
    alertOpen,        \* the alert() dialog each page shows: {} or {text}
    consoleErrors,    \* console.error lines of each page
    navigation,       \* what the last click on a Register link did
    lastHandler,      \* the click handler that last left at its guard clause
    failures,         \* number of failed store and storage requests so far
    rated,            \* number of rating clicks so far
    criteria,         \* search text and selectors of each browsing page
    filteredView,     \* the list each page rendered last
    vendorPage        \* vendor dashboard state

vars == <<dbWorkshops, dbUsers, dbRegistrations, created, user, userData, workshops,
          heap, calls, alertOpen, consoleErrors, navigation, lastHandler, failures,
          rated, criteria, filteredView, vendorPage>>

-----------------------------------------------------------------------------
(* Bounds of the model *)

MaxWorkshops == 2
MaxRates == 3
MaxFailures == 1
MaxInFlight == 2

Clients == {"c1", "c2"}
Users == {"u1", "u2"}
Vendors == {"v1"}
NoUser == "null"

\* the account signed in on each browsing page
AccountOf(c) == IF c = "c1" THEN "u1" ELSE "u2"

WorkshopIds == 1..MaxWorkshops
ObjIds == 1..(MaxWorkshops + MaxInFlight)

\* the stars of the rating buttons; the model clicks three of the five
Stars == 1..5
StarInputs == {2, 4, 5}

None == {}
Some(x) == {x}
IsSome(o) == o # {}
The(o) == CHOOSE x \in o : TRUE

EmptyMap == [k \in {} |-> 0]

\* a text field the document does not have
Undefined == "undefined"

-----------------------------------------------------------------------------
(* Rating aggregation *)

RECURSIVE SumOver(_, _)
SumOver(m, keys) ==
    IF keys = {} THEN 0
    ELSE LET k == CHOOSE x \in keys : TRUE
         IN  m[k] + SumOver(m, keys \ {k})

\* values.reduce((a, b) => a + b, 0)
SumValues(m) == SumOver(m, DOMAIN m)

\* values.length
CountValues(m) == Cardinality(DOMAIN m)

\* a variant that starts a fresh map for the user instead of updating the map
SetRatingFresh(m, uid, r) == (uid :> r)

\* currentRatings[user.uid] = rating
SetRating(m, uid, r) == [k \in (DOMAIN m) \cup {uid} |-> IF k = uid THEN r ELSE m[k]]

\* const avg = values.reduce(...) / values.length
Average(m) == [num |-> SumValues(m), den |-> CountValues(m)]

\* the update handleRate sends: { ratings, rating: avg, ratingCount: values.length }
RatingUpdate(m) == [ratings |-> m, rating |-> Average(m), ratingCount |-> CountValues(m)]

\* quotient a equals quotient b (denominators are positive)
SameQuotient(a, b) == a.num * b.den = b.num * a.den

-----------------------------------------------------------------------------
(* Vendor form data *)

\* the data handleCreate and handleEdit pass on
Forms ==
    { [title |-> <<"A", "r", "t">>, description |-> "d1", price |-> 2500,
       category |-> "Art", date |-> "2025-01-01", whatsappLink |-> "", image |-> FALSE],
      [title |-> <<"J", "a", "m">>, description |-> "d2", price |-> 2501,
       category |-> "Music", date |-> "2025-02-02", whatsappLink |-> "wa", image |-> TRUE] }

\* a document createWorkshop adds
NewWorkshopDoc(vendorId, data, imageUrl) ==
    [vendorId |-> vendorId, title |-> data.title, description |-> data.description,
     price |-> data.price, category |-> data.category, date |-> data.date,
     whatsappLink |-> data.whatsappLink, imageUrl |-> imageUrl,
     location |-> Undefined, ageGroup |-> Undefined,
     ratings |-> None, rating |-> None, ratingCount |-> None]

\* a variant that writes the whole form record over the document, ratings and
\* aggregate reset
EditedDocOverwriting(d, data, imageUrl) ==
    [d EXCEPT !.title = data.title, !.description = data.description,
              !.price = data.price, !.category = data.category, !.date = data.date,
              !.whatsappLink = data.whatsappLink,
              !.imageUrl = IF imageUrl # "" THEN imageUrl ELSE @,
              !.ratings = None, !.rating = None, !.ratingCount = None]

\* updateDoc(refDoc, cleanedData): the named fields replace the document's
EditedDoc(d, data, imageUrl) ==
    [d EXCEPT !.title = data.title, !.description = data.description,
              !.price = data.price, !.category = data.category, !.date = data.date,
              !.whatsappLink = data.whatsappLink,
              !.imageUrl = IF imageUrl # "" THEN imageUrl ELSE @]

\* a variant that counts a rating write incrementally instead of storing the
\* count that was sent
RatedDocIncrement(d, upd) ==
    [d EXCEPT !.ratings = Some(upd.ratings), !.rating = Some(upd.rating),
              !.ratingCount = Some(IF IsSome(@) THEN The(@) + 1 ELSE 1)]

\* a variant that merges the sent ratings into the stored map key by key and
\* recomputes the aggregate at the store
RatedDocMerged(d, upd) ==
    LET old == IF IsSome(d.ratings) THEN The(d.ratings) ELSE EmptyMap
        merged == [k \in (DOMAIN old) \cup (DOMAIN upd.ratings) |->
                      IF k \in DOMAIN upd.ratings THEN upd.ratings[k] ELSE old[k]]
    IN  [d EXCEPT !.ratings = Some(merged), !.rating = Some(Average(merged)),
                  !.ratingCount = Some(CountValues(merged))]

\* updateDoc(workshopRef, {ratings, rating, ratingCount})
RatedDoc(d, upd) ==
    [d EXCEPT !.ratings = Some(upd.ratings), !.rating = Some(upd.rating),
              !.ratingCount = Some(upd.ratingCount)]

-----------------------------------------------------------------------------
(* The filtered view of the browsing page *)

\* String.prototype.toLowerCase, one character at a time
LowerChar(ch) ==
    CASE ch = "A" -> "a"
      [] ch = "J" -> "j"
      [] ch = "R" -> "r"
      [] ch = "T" -> "t"
      [] ch = "M" -> "m"
      [] OTHER -> ch

toLowerCase(s) == [i \in 1..Len(s) |-> LowerChar(s[i])]

\* String.prototype.includes
includes(s, t) == \E i \in 0..(Len(s) - Len(t)) : SubSeq(s, i + 1, i + Len(t)) = t

\* Number(ratingFilter) for the values of the Min Rating select
NumberOfOption(s) ==
    CASE s = "1" -> 1
      [] s = "2" -> 2
      [] s = "3" -> 3
      [] s = "4" -> 4
      [] s = "5" -> 5

\* the six named buckets of the Price select
PriceBuckets == {"0-2500", "2500-5000", "5000-10000", "10000-20000", "20000-30000", "30000+"}

\* a variant whose first range excludes its upper boundary
matchesPriceExclusive(priceRange, price) ==
    IF priceRange = "0-2500" THEN price < 2500
    ELSE IF priceRange = "2500-5000" THEN price > 2500 /\ price <= 5000
    ELSE IF priceRange = "5000-10000" THEN price > 5000 /\ price <= 10000
    ELSE IF priceRange = "10000-20000" THEN price > 10000 /\ price <= 20000
    ELSE IF priceRange = "20000-30000" THEN price > 20000 /\ price <= 30000
    ELSE IF priceRange = "30000+" THEN price > 30000
    ELSE TRUE

\* a variant that starts from false, so that an unnamed range matches nothing
matchesPriceFailClosed(priceRange, price) ==
    IF priceRange = "0-2500" THEN price <= 2500
    ELSE IF priceRange = "2500-5000" THEN price > 2500 /\ price <= 5000
    ELSE IF priceRange = "5000-10000" THEN price > 5000 /\ price <= 10000
    ELSE IF priceRange = "10000-20000" THEN price > 10000 /\ price <= 20000
    ELSE IF priceRange = "20000-30000" THEN price > 20000 /\ price <= 30000
    ELSE IF priceRange = "30000+" THEN price > 30000
    ELSE FALSE

\* let matchesPrice = true, then the six if statements in order
matchesPrice(priceRange, price) ==
    LET m0 == TRUE
        m1 == IF priceRange = "0-2500" THEN price <= 2500 ELSE m0
        m2 == IF priceRange = "2500-5000" THEN price > 2500 /\ price <= 5000 ELSE m1
        m3 == IF priceRange = "5000-10000" THEN price > 5000 /\ price <= 10000 ELSE m2
        m4 == IF priceRange = "10000-20000" THEN price > 10000 /\ price <= 20000 ELSE m3
        m5 == IF priceRange = "20000-30000" THEN price > 20000 /\ price <= 30000 ELSE m4
        m6 == IF priceRange = "30000+" THEN price > 30000 ELSE m5
    IN  m6

\* a variant that asks for a rating above the threshold
matchesRatingAbove(ratingFilter, w) ==
    /\ ratingFilter # "All" => IsSome(w.rating)
    /\ ratingFilter # "All" =>
           The(w.rating).num > NumberOfOption(ratingFilter) * The(w.rating).den

\* (w.rating || 0) >= Number(ratingFilter), on the quotient num / den
matchesRating(ratingFilter, w) ==
    LET q == IF IsSome(w.rating) /\ The(w.rating).num # 0
             THEN The(w.rating) ELSE [num |-> 0, den |-> 1]
    IN  ratingFilter = "All" \/ q.num >= NumberOfOption(ratingFilter) * q.den

\* the callback of workshops.filter
matches(crit, w) ==
    /\ includes(toLowerCase(w.title), toLowerCase(crit.search))
    /\ (crit.category = "All" \/ w.category = crit.category)
    /\ (crit.vendorFilter = "All" \/ w.vendorId = crit.vendorFilter)
    /\ (crit.location = "All" \/ w.location = crit.location)
    /\ (crit.ageGroup = "All" \/ w.ageGroup = crit.ageGroup)
    /\ matchesPrice(crit.priceRange, w.price)
    /\ matchesRating(crit.ratingFilter, w)

\* a variant that collects the elements that pass from the back
RECURSIVE FilterSeqBackwards(_, _)
FilterSeqBackwards(crit, list) ==
    IF list = <<>> THEN <<>>
    ELSE IF matches(crit, Head(list))
         THEN FilterSeqBackwards(crit, Tail(list)) \o <<Head(list)>>
         ELSE FilterSeqBackwards(crit, Tail(list))

\* Array.prototype.filter: the elements that pass, in their order
RECURSIVE FilterSeq(_, _)
FilterSeq(crit, list) ==
    IF list = <<>> THEN <<>>
    ELSE IF matches(crit, Head(list))
         THEN <<Head(list)>> \o FilterSeq(crit, Tail(list))
         ELSE FilterSeq(crit, Tail(list))

\* const filtered = workshops.filter(...)
filtered(c) == FilterSeq(criteria[c], workshops[c])

\* the useState defaults of the search text and the selectors
DefaultCriteria ==
    [search |-> <<>>, category |-> "All", location |-> "All", priceRange |-> "All",
     ageGroup |-> "All", ratingFilter |-> "All", vendorFilter |-> "All"]

-----------------------------------------------------------------------------
(* The store and what a page holds of it *)

Min(S) == CHOOSE x \in S : \A y \in S : x <= y

\* { id: doc.id, ...doc.data() }: the record's ratings is a fresh object, kept at heap[id]
RecordOf(id, d) == ("id" :> id) @@ [d EXCEPT !.ratings = IF IsSome(@) THEN Some(id) ELSE None]

\* workshopSnap.docs.map(...): one record per document, by document id
RECURSIVE SnapshotOf(_, _)
SnapshotOf(docs, ids) ==
    IF ids = {} THEN <<>>
    ELSE <<RecordOf(Min(ids), docs[Min(ids)])>> \o SnapshotOf(docs, ids \ {Min(ids)})

\* the ratings objects of a fresh snapshot
FetchedHeap(docs) ==
    [o \in ObjIds |-> IF o \in DOMAIN docs /\ IsSome(docs[o].ratings)
                      THEN The(docs[o].ratings) ELSE EmptyMap]

\* the objects a page's records and its running calls refer to
Refs(list, cs) ==
    UNION {list[i].ratings : i \in DOMAIN list}
      \cup {cs[i].ref : i \in {j \in DOMAIN cs : cs[j].live /\ cs[j].kind = "rate"}}

\* unreferenced objects are garbage
Collect(h, list, cs) == [o \in ObjIds |-> IF o \in Refs(list, cs) THEN h[o] ELSE EmptyMap]

\* workshops.find(w => w.id === workshopId): {} or {index of the first match}
find(list, workshopId) ==
    LET hits == {i \in DOMAIN list : list[i].id = workshopId}
    IN  IF hits = {} THEN None ELSE Some(Min(hits))

\* a variant that renders the rating buttons on every card
isRegisteredAlways(c, w) == TRUE

\* userData?.registeredWorkshops?.includes(w.id)
isRegistered(c, w) == IsSome(userData[c]) /\ w \in The(userData[c]).registeredWorkshops

\* userData?.favorites?.includes(w.id)
isFavorite(c, w) == IsSome(userData[c]) /\ w \in The(userData[c]).favorites

\* the card of workshop w is on the page and no alert() blocks the page
Rendered(c, w) ==
    /\ navigation[c].at = "workshops"
    /\ alertOpen[c] = None
    /\ \E i \in DOMAIN filtered(c) : filtered(c)[i].id = w

\* a page that unloads leaves its sent writes behind: they still reach the store
Orphaned(cs) == [i \in DOMAIN cs |-> [cs[i] EXCEPT !.live = FALSE, !.ref = 0]]

NoHandler == [client |-> "none", name |-> "none", outcome |-> "none", workshopId |-> 0]
Left(c, name, outcome, w) == [client |-> c, name |-> name, outcome |-> outcome, workshopId |-> w]
AtWorkshops == [at |-> "workshops", workshopId |-> 0, step |-> "none"]
NoUpdate == RatingUpdate(EmptyMap)

\* no fetchData of the dashboard is running
NoFetch == [step |-> "idle", data |-> <<>>, at |-> 0, pMap |-> EmptyMap]

\* the useState defaults of the dashboard
IdleVendorPage ==
    [workshops |-> <<>>, participantsMap |-> EmptyMap, loading |-> TRUE, error |-> None,
     fetch |-> NoFetch,
     isCreateOpen |-> FALSE, isEditOpen |-> FALSE, selectedWorkshop |-> None,
     form |-> [title |-> <<>>, description |-> "", price |-> 0, category |-> "Art",
               date |-> "", whatsappLink |-> "", image |-> FALSE],
     alert |-> None, consoleErrors |-> <<>>, ops |-> <<>>]

Init ==
    /\ dbWorkshops = [i \in {} |-> 0]
    /\ dbUsers = [u \in Users |-> [favorites |-> {}, registeredWorkshops |-> {}]]
    /\ dbRegistrations = <<>>
    /\ created = 0
    /\ user = [c \in Clients |-> NoUser]
    /\ userData = [c \in Clients |-> None]
    /\ workshops = [c \in Clients |-> <<>>]
    /\ heap = [c \in Clients |-> [o \in ObjIds |-> EmptyMap]]
    /\ calls = [c \in Clients |-> <<>>]
    /\ alertOpen = [c \in Clients |-> None]
    /\ consoleErrors = [c \in Clients |-> <<>>]
    /\ navigation = [c \in Clients |-> AtWorkshops]
    /\ lastHandler = NoHandler
    /\ failures = 0
    /\ rated = 0
    /\ criteria = [c \in Clients |-> DefaultCriteria]
    /\ filteredView = [c \in Clients |-> <<>>]
    /\ vendorPage = IdleVendorPage

storeVars == <<dbWorkshops, dbUsers, dbRegistrations, created>>
pageVars == <<user, userData, workshops, heap, calls, alertOpen, consoleErrors,
              navigation, lastHandler, criteria, filteredView>>

-----------------------------------------------------------------------------
(* src/firebase/workshopActions.ts: the vendor's actions *)

\* createWorkshop: upload the image if there is one, then addDoc
createWorkshop(vendorId, data) ==
    /\ created < MaxWorkshops
    /\ \/ /\ created' = created + 1
          /\ dbWorkshops' = (created + 1 :> NewWorkshopDoc(vendorId, data,
                                 IF data.image THEN "url" ELSE "")) @@ dbWorkshops
          /\ UNCHANGED failures
       \/ \* uploadBytes or addDoc fails: createWorkshop throws
          /\ failures < MaxFailures
          /\ failures' = failures + 1
          /\ UNCHANGED <<created, dbWorkshops>>
    /\ UNCHANGED <<dbUsers, dbRegistrations, rated, vendorPage>>
    /\ UNCHANGED pageVars

\* updateWorkshop: upload the new image if there is one, then updateDoc
updateWorkshop(id, data) ==
    /\ id \in 1..created
    /\ \/ /\ id \in DOMAIN dbWorkshops
          /\ dbWorkshops' = [dbWorkshops EXCEPT ![id] =
                                 EditedDoc(@, data, IF data.image THEN "url2" ELSE "")]
          /\ UNCHANGED failures
       \/ \* uploadBytes or updateDoc fails: updateWorkshop throws
          /\ failures < MaxFailures
          /\ failures' = failures + 1
          /\ UNCHANGED dbWorkshops
    /\ UNCHANGED <<dbUsers, dbRegistrations, created, rated, vendorPage>>
    /\ UNCHANGED pageVars

\* deleteWorkshop: deleteDoc
deleteWorkshop(id) ==
    /\ id \in DOMAIN dbWorkshops
    /\ dbWorkshops' = [i \in (DOMAIN dbWorkshops) \ {id} |-> dbWorkshops[i]]
    /\ UNCHANGED <<dbUsers, dbRegistrations, created, failures, rated, vendorPage>>
    /\ UNCHANGED pageVars

-----------------------------------------------------------------------------
(* Authentication context (useAuth) and page load *)

\* the session signs in or out: useAuth().user changes
authStateChanged(c) ==
    /\ user' = [user EXCEPT ![c] = IF @ = NoUser THEN AccountOf(c) ELSE NoUser]
    /\ UNCHANGED <<storeVars, failures, rated, vendorPage>>
    /\ UNCHANGED <<userData, workshops, heap, calls, alertOpen, consoleErrors,
                   navigation, lastHandler, criteria, filteredView>>

\* the user document the context holds for the session's user
LoadedUserData(c, users) == IF user[c] = NoUser THEN None ELSE Some(users[user[c]])

\* the context loads the user document: useAuth().userData changes
userDataLoaded(c) ==
    /\ userData[c] # LoadedUserData(c, dbUsers)
    /\ userData' = [userData EXCEPT ![c] = LoadedUserData(c, dbUsers)]
    /\ UNCHANGED <<storeVars, failures, rated, vendorPage>>
    /\ UNCHANGED <<user, workshops, heap, calls, alertOpen, consoleErrors,
                   navigation, lastHandler, criteria, filteredView>>

\* the browsing page loads: every useState starts over and fetchData runs
Loaded(c, docs, users) ==
    /\ userData' = [userData EXCEPT ![c] = LoadedUserData(c, users)]
    /\ workshops' = [workshops EXCEPT ![c] = SnapshotOf(docs, DOMAIN docs)]
    /\ heap' = [heap EXCEPT ![c] = FetchedHeap(docs)]
    /\ alertOpen' = [alertOpen EXCEPT ![c] = None]
    /\ navigation' = [navigation EXCEPT ![c] = AtWorkshops]
    /\ criteria' = [criteria EXCEPT ![c] = DefaultCriteria]
    /\ filteredView' = [filteredView EXCEPT ![c] =
           FilterSeq(DefaultCriteria, SnapshotOf(docs, DOMAIN docs))]

\* useEffect(() => { fetchData() }, []) of a page that mounts
fetchData(c) ==
    /\ Loaded(c, dbWorkshops, dbUsers)
    /\ calls' = [calls EXCEPT ![c] = Orphaned(@)]
    /\ UNCHANGED <<storeVars, failures, rated, vendorPage>>
    /\ UNCHANGED <<user, consoleErrors, lastHandler>>

\* the user closes the alert() dialog
dismissAlert(c) ==
    /\ alertOpen[c] # None
    /\ alertOpen' = [alertOpen EXCEPT ![c] = None]
    /\ UNCHANGED <<storeVars, failures, rated, vendorPage>>
    /\ UNCHANGED <<user, userData, workshops, heap, calls, consoleErrors,
                   navigation, lastHandler, criteria, filteredView>>

-----------------------------------------------------------------------------
(* src/app/workshops/page.tsx: the search box and the selects *)

\* the page is up and no alert() blocks it
PageIsUp(c) == navigation[c].at = "workshops" /\ alertOpen[c] = None

\* a state setter ran: the component renders again with the new criteria
Rerendered(c) ==
    /\ filteredView' = [filteredView EXCEPT ![c] = FilterSeq(criteria'[c], workshops[c])]
    /\ UNCHANGED <<storeVars, failures, rated, vendorPage>>
    /\ UNCHANGED <<user, userData, workshops, heap, calls, alertOpen, consoleErrors,
                   navigation, lastHandler>>

\* the text of an <option> without a value attribute is its value
OptionOf(loc) == IF loc = Undefined THEN "" ELSE loc

\* [...new Set(workshops.map((w) => w.location))]
LocationOptions(c) == {OptionOf(workshops[c][i].location) : i \in DOMAIN workshops[c]}

setSearch(c, text) ==
    /\ PageIsUp(c)
    /\ criteria' = [criteria EXCEPT ![c].search = text]
    /\ Rerendered(c)

setCategory(c, v) ==
    /\ PageIsUp(c)
    /\ criteria' = [criteria EXCEPT ![c].category = v]
    /\ Rerendered(c)

setVendorFilter(c, v) ==
    /\ PageIsUp(c)
    /\ criteria' = [criteria EXCEPT ![c].vendorFilter = v]
    /\ Rerendered(c)

setAgeGroup(c, v) ==
    /\ PageIsUp(c)
    /\ criteria' = [criteria EXCEPT ![c].ageGroup = v]
    /\ Rerendered(c)

setLocation(c, v) ==
    /\ PageIsUp(c)
    /\ v \in {"All"} \cup LocationOptions(c)
    /\ criteria' = [criteria EXCEPT ![c].location = v]
    /\ Rerendered(c)

setPriceRange(c, v) ==
    /\ PageIsUp(c)
    /\ criteria' = [criteria EXCEPT ![c].priceRange = v]
    /\ Rerendered(c)

setRatingFilter(c, v) ==
    /\ PageIsUp(c)
    /\ criteria' = [criteria EXCEPT ![c].ratingFilter = v]
    /\ Rerendered(c)

-----------------------------------------------------------------------------
(* src/app/workshops/page.tsx: handleRate *)

RateCall(w, uid, ref, upd) ==
    [kind |-> "rate", live |-> TRUE, workshopId |-> w, uid |-> uid, ref |-> ref,
     update |-> upd, isFav |-> FALSE]

\* const currentRatings = workshop.ratings || {}: the record's object, or a new one
currentRatingsRef(c, workshop) ==
    IF IsSome(workshop.ratings) THEN The(workshop.ratings)
    ELSE Min(ObjIds \ Refs(workshops[c], calls[c]))

\* handleRate up to its await: a click on star r of the card of workshop w
handleRate(c, w, r) ==
    /\ Rendered(c, w)
    /\ isRegistered(c, w)
    /\ \/ \* if (!user) return;
          /\ user[c] = NoUser
          /\ lastHandler' = Left(c, "handleRate", "returned", w)
          /\ UNCHANGED <<heap, calls, rated>>
       \/ /\ user[c] # NoUser
          /\ rated < MaxRates
          /\ Len(calls[c]) < MaxInFlight
          /\ LET at == find(workshops[c], w)
                 workshop == workshops[c][The(at)]
                 ref == currentRatingsRef(c, workshop)
                 \* currentRatings[user.uid] = rating;
                 currentRatings == SetRating(heap[c][ref], user[c], r)
             IN  /\ IsSome(at)
                 /\ heap' = [heap EXCEPT ![c][ref] = currentRatings]
                 \* updateDoc(workshopRef, {...}) takes its data now and is awaited
                 /\ calls' = [calls EXCEPT ![c] =
                        Append(@, RateCall(w, user[c], ref, RatingUpdate(currentRatings)))]
          /\ rated' = rated + 1
          /\ UNCHANGED lastHandler
    /\ UNCHANGED <<storeVars, failures, vendorPage>>
    /\ UNCHANGED <<user, userData, workshops, alertOpen, consoleErrors, navigation,
                   criteria, filteredView>>

\* setWorkshops(prev => prev.map(w => w.id === workshopId ? {...w, ratings, rating, ratingCount} : w))
WithRating(list, workshopId, ref, upd) ==
    [i \in DOMAIN list |->
        IF list[i].id = workshopId
        THEN [list[i] EXCEPT !.ratings = Some(ref), !.rating = Some(upd.rating),
                             !.ratingCount = Some(upd.ratingCount)]
        ELSE list[i]]

\* the oldest awaited call of page c is a call of this kind
Awaited(c, kind) == calls[c] # <<>> /\ Head(calls[c]).kind = kind

\* the awaited call leaves the queue; objects nothing refers to any more are dropped
CallDone(c) ==
    /\ calls' = [calls EXCEPT ![c] = Tail(@)]
    /\ heap' = [heap EXCEPT ![c] = Collect(@, workshops'[c], calls'[c])]
    /\ filteredView' = [filteredView EXCEPT ![c] = FilterSeq(criteria[c], workshops'[c])]

\* handleRate after its await: updateDoc succeeded, setWorkshops runs
handleRateWritten(c) ==
    /\ Awaited(c, "rate")
    /\ LET call == Head(calls[c])
       IN  /\ call.workshopId \in DOMAIN dbWorkshops
           /\ dbWorkshops' = [dbWorkshops EXCEPT ![call.workshopId] = RatedDoc(@, call.update)]
           /\ workshops' = [workshops EXCEPT ![c] =
                  IF call.live THEN WithRating(@, call.workshopId, call.ref, call.update)
                  ELSE @]
    /\ CallDone(c)
    /\ UNCHANGED <<dbUsers, dbRegistrations, created, failures, rated, vendorPage>>
    /\ UNCHANGED <<user, userData, alertOpen, consoleErrors, navigation, lastHandler, criteria>>

\* handleRate after its await: updateDoc threw (the document is gone, or the
\* request was refused), the catch logs the error
handleRateFailed(c) ==
    /\ Awaited(c, "rate")
    /\ LET call == Head(calls[c])
       IN  /\ \/ /\ call.workshopId \notin DOMAIN dbWorkshops
                 /\ UNCHANGED failures
              \/ /\ failures < MaxFailures
                 /\ failures' = failures + 1
           /\ consoleErrors' = [consoleErrors EXCEPT ![c] =
                  IF call.live THEN Append(@, "Error rating workshop:") ELSE @]
    /\ UNCHANGED workshops
    /\ CallDone(c)
    /\ UNCHANGED <<storeVars, rated, vendorPage>>
    /\ UNCHANGED <<user, userData, alertOpen, navigation, lastHandler, criteria>>

-----------------------------------------------------------------------------
(* src/app/workshops/page.tsx: toggleFavorite and handleRegisterClick *)

FavCall(w, uid, isFav) ==
    [kind |-> "fav", live |-> TRUE, workshopId |-> w, uid |-> uid, ref |-> 0,
     update |-> NoUpdate, isFav |-> isFav]

\* toggleFavorite up to its await: a click on the heart of the card of workshop w
toggleFavorite(c, w) ==
    /\ Rendered(c, w)
    /\ \/ \* if (!user || !userData) { alert(...); return; }
          /\ user[c] = NoUser \/ userData[c] = None
          /\ alertOpen' = [alertOpen EXCEPT ![c] = Some("Please login to add to favorites.")]
          /\ lastHandler' = Left(c, "toggleFavorite", "returned", w)
          /\ UNCHANGED calls
       \/ /\ user[c] # NoUser /\ userData[c] # None
          /\ Len(calls[c]) < MaxInFlight
          \* updateDoc(userRef, {favorites: ...}) is awaited
          /\ calls' = [calls EXCEPT ![c] = Append(@, FavCall(w, user[c], isFavorite(c, w)))]
          /\ UNCHANGED <<alertOpen, lastHandler>>
    /\ UNCHANGED <<storeVars, failures, rated, vendorPage>>
    /\ UNCHANGED <<user, userData, workshops, heap, consoleErrors, navigation,
                   criteria, filteredView>>

\* updateDoc(userRef, {favorites: arrayRemove(id)}) or {favorites: arrayUnion(id)}
FavoriteToggled(users, call) ==
    [users EXCEPT ![call.uid].favorites =
        IF call.isFav THEN @ \ {call.workshopId} ELSE @ \cup {call.workshopId}]

\* toggleFavorite after its await: updateDoc succeeded, window.location.reload()
toggleFavoriteWritten(c) ==
    /\ Awaited(c, "fav")
    /\ dbUsers' = FavoriteToggled(dbUsers, Head(calls[c]))
    /\ IF Head(calls[c]).live
       THEN /\ Loaded(c, dbWorkshops, dbUsers')
            /\ calls' = [calls EXCEPT ![c] = Orphaned(Tail(@))]
       ELSE /\ calls' = [calls EXCEPT ![c] = Tail(@)]
            /\ UNCHANGED <<userData, workshops, heap, alertOpen, navigation,
                           criteria, filteredView>>
    /\ UNCHANGED <<dbWorkshops, dbRegistrations, created, failures, rated, vendorPage>>
    /\ UNCHANGED <<user, consoleErrors, lastHandler>>

\* toggleFavorite after its await: updateDoc threw, the catch logs the error
toggleFavoriteFailed(c) ==
    /\ Awaited(c, "fav")
    /\ failures < MaxFailures
    /\ failures' = failures + 1
    /\ consoleErrors' = [consoleErrors EXCEPT ![c] =
           IF Head(calls[c]).live THEN Append(@, "Error toggling favorite:") ELSE @]
    /\ calls' = [calls EXCEPT ![c] = Tail(@)]
    /\ UNCHANGED <<storeVars, rated, vendorPage>>
    /\ UNCHANGED <<user, userData, workshops, heap, alertOpen, navigation, lastHandler,
                   criteria, filteredView>>

\* a variant whose guard shows the alert without e.preventDefault()
handleRegisterClickFollowed(c, w) ==
    /\ Rendered(c, w)
    /\ ~isRegistered(c, w)
    /\ navigation' = [navigation EXCEPT ![c] =
           [at |-> "register", workshopId |-> w, step |-> "form"]]
    /\ IF user[c] = NoUser
       THEN /\ alertOpen' = [alertOpen EXCEPT ![c] =
                   Some("Register or login to register for a workshop")]
            /\ lastHandler' = Left(c, "handleRegisterClick", "alerted", w)
       ELSE UNCHANGED <<alertOpen, lastHandler>>
    /\ workshops' = [workshops EXCEPT ![c] = <<>>]
    /\ heap' = [heap EXCEPT ![c] = [o \in ObjIds |-> EmptyMap]]
    /\ calls' = [calls EXCEPT ![c] = Orphaned(@)]
    /\ filteredView' = [filteredView EXCEPT ![c] = <<>>]
    /\ UNCHANGED <<storeVars, failures, rated, vendorPage>>
    /\ UNCHANGED <<user, userData, consoleErrors, criteria>>

\* handleRegisterClick: a click on the Register link of the card of workshop w
handleRegisterClick(c, w) ==
    /\ Rendered(c, w)
    /\ ~isRegistered(c, w)
    /\ \/ \* if (!user) { e.preventDefault(); alert(...); }
          /\ user[c] = NoUser
          /\ alertOpen' = [alertOpen EXCEPT ![c] =
                 Some("Register or login to register for a workshop")]
          /\ lastHandler' = Left(c, "handleRegisterClick", "prevented", w)
          /\ UNCHANGED <<navigation, workshops, heap, calls, filteredView>>
       \/ \* the link is followed to /register/w and the browsing page unmounts
          /\ user[c] # NoUser
          /\ navigation' = [navigation EXCEPT ![c] =
                 [at |-> "register", workshopId |-> w, step |-> "form"]]
          /\ UNCHANGED lastHandler
          /\ workshops' = [workshops EXCEPT ![c] = <<>>]
          /\ heap' = [heap EXCEPT ![c] = [o \in ObjIds |-> EmptyMap]]
          /\ calls' = [calls EXCEPT ![c] = Orphaned(@)]
          /\ filteredView' = [filteredView EXCEPT ![c] = <<>>]
          /\ UNCHANGED alertOpen
    /\ UNCHANGED <<storeVars, failures, rated, vendorPage>>
    /\ UNCHANGED <<user, userData, consoleErrors, criteria>>

-----------------------------------------------------------------------------
(* src/firebase/workshopActions.ts: registerForWorkshop, run by the page /register/w *)

MaxRegistrations == 2

Registration(w, uid) ==
    [workshopId |-> w, userId |-> uid, receiptUrl |-> "receipt", status |-> "pending",
     consentAccepted |-> TRUE]

\* a registerForWorkshop that would update the user document before it adds
\* the registration document
registerForWorkshopUserFirst(c) ==
    /\ navigation[c].at = "register"
    /\ user[c] # NoUser
    /\ LET w == navigation[c].workshopId
           step == navigation[c].step
       IN  \/ /\ step = "form"
              /\ navigation' = [navigation EXCEPT ![c].step = "addDoc"]
              /\ UNCHANGED <<dbRegistrations, dbUsers, failures>>
           \/ /\ step = "addDoc"
              /\ dbUsers' = [dbUsers EXCEPT ![user[c]].registeredWorkshops = @ \cup {w}]
              /\ navigation' = [navigation EXCEPT ![c].step = "updateDoc"]
              /\ UNCHANGED <<dbRegistrations, failures>>
           \/ /\ step = "updateDoc"
              /\ Len(dbRegistrations) < MaxRegistrations
              /\ dbRegistrations' = Append(dbRegistrations, Registration(w, user[c]))
              /\ navigation' = [navigation EXCEPT ![c].step = "done"]
              /\ UNCHANGED <<dbUsers, failures>>
           \/ /\ step \in {"form", "addDoc", "updateDoc"}
              /\ failures < MaxFailures
              /\ failures' = failures + 1
              /\ navigation' = [navigation EXCEPT ![c].step = "failed"]
              /\ UNCHANGED <<dbRegistrations, dbUsers>>
    /\ UNCHANGED <<dbWorkshops, created, rated, vendorPage>>
    /\ UNCHANGED <<user, userData, workshops, heap, calls, alertOpen, consoleErrors,
                   lastHandler, criteria, filteredView>>

\* one await of registerForWorkshop settles: uploadBytes, addDoc, updateDoc in turn
registerForWorkshop(c) ==
    /\ navigation[c].at = "register"
    /\ user[c] # NoUser
    /\ LET w == navigation[c].workshopId
           step == navigation[c].step
       IN  \/ /\ step = "form"
              /\ navigation' = [navigation EXCEPT ![c].step = "addDoc"]
              /\ UNCHANGED <<dbRegistrations, dbUsers, failures>>
           \/ /\ step = "addDoc"
              /\ Len(dbRegistrations) < MaxRegistrations
              /\ dbRegistrations' = Append(dbRegistrations, Registration(w, user[c]))
              /\ navigation' = [navigation EXCEPT ![c].step = "updateDoc"]
              /\ UNCHANGED <<dbUsers, failures>>
           \/ /\ step = "updateDoc"
              /\ dbUsers' = [dbUsers EXCEPT ![user[c]].registeredWorkshops = @ \cup {w}]
              /\ navigation' = [navigation EXCEPT ![c].step = "done"]
              /\ UNCHANGED <<dbRegistrations, failures>>
           \/ \* the awaited request fails and registerForWorkshop throws
              /\ step \in {"form", "addDoc", "updateDoc"}
              /\ failures < MaxFailures
              /\ failures' = failures + 1
              /\ navigation' = [navigation EXCEPT ![c].step = "failed"]
              /\ UNCHANGED <<dbRegistrations, dbUsers>>
    /\ UNCHANGED <<dbWorkshops, created, rated, vendorPage>>
    /\ UNCHANGED <<user, userData, workshops, heap, calls, alertOpen, consoleErrors,
                   lastHandler, criteria, filteredView>>

-----------------------------------------------------------------------------
(* src/app/vendor/page.tsx: the dashboard of vendor v1 *)

\* snap.docs.map((doc) => ({id: doc.id, ...doc.data()})) of the vendor's documents
RECURSIVE VendorRecords(_, _, _)
VendorRecords(docs, ids, vendorId) ==
    IF ids = {} THEN <<>>
    ELSE LET id == Min(ids)
             rest == VendorRecords(docs, ids \ {id}, vendorId)
         IN  IF docs[id].vendorId = vendorId
             THEN <<("id" :> id) @@ docs[id]>> \o rest
             ELSE rest

getVendorWorkshops(vendorId) == VendorRecords(dbWorkshops, DOMAIN dbWorkshops, vendorId)

\* regData.status || "pending"
StatusOrPending(status) == IF status \in {Undefined, ""} THEN "pending" ELSE status

\* the participants loop: one entry per registration of the workshop whose user exists
RECURSIVE Participants(_, _, _, _)
Participants(regs, users, workshopId, i) ==
    IF i > Len(regs) THEN <<>>
    ELSE IF regs[i].workshopId = workshopId /\ regs[i].userId \in DOMAIN users
         THEN <<[uid |-> regs[i].userId, receiptUrl |-> regs[i].receiptUrl,
                 status |-> StatusOrPending(regs[i].status), registrationId |-> i]>>
              \o Participants(regs, users, workshopId, i + 1)
         ELSE Participants(regs, users, workshopId, i + 1)

\* a variant that counts approved participants only
CountedApprovedOnly(p) == p.status = "approved"

\* p.status === 'approved' || !p.status || p.status === 'pending'
Counted(p) == p.status = "approved" \/ p.status \in {Undefined, ""} \/ p.status = "pending"

\* participantsMap[ws.id]?.filter(...).length || 0
CountFor(pMap, ws) ==
    IF ws.id \in DOMAIN pMap THEN Len(SelectSeq(pMap[ws.id], Counted)) ELSE 0

\* workshops.reduce((acc, ws) => acc + (ws.price * count), 0)
RECURSIVE Reduce(_, _, _)
Reduce(list, pMap, acc) ==
    IF list = <<>> THEN acc
    ELSE Reduce(Tail(list), pMap, acc + Head(list).price * CountFor(pMap, Head(list)))

totalRevenue == Reduce(vendorPage.workshops, vendorPage.participantsMap, 0)

\* fetchData of the dashboard up to its first await
dashboardFetchData ==
    /\ vendorPage.fetch.step = "idle"
    /\ vendorPage' = [vendorPage EXCEPT !.loading = TRUE, !.error = None,
                                        !.fetch = [NoFetch EXCEPT !.step = "workshops"]]
    /\ UNCHANGED <<storeVars, failures, rated>>
    /\ UNCHANGED pageVars

\* an end of fetchData that would skip the finally block's setLoading(false)
FetchFinishedLoading(page, pMap) == [page EXCEPT !.participantsMap = pMap, !.fetch = NoFetch]

\* the rest of fetchData once nothing is left to await
FetchFinished(page, pMap) ==
    [page EXCEPT !.participantsMap = pMap, !.loading = FALSE, !.fetch = NoFetch]

\* await getVendorWorkshops(user.uid) settles
vendorWorkshopsFetched ==
    /\ vendorPage.fetch.step = "workshops"
    /\ \/ LET data == getVendorWorkshops("v1")
              shown == [vendorPage EXCEPT !.workshops = data]
          IN  /\ vendorPage' =
                    IF data = <<>> THEN FetchFinished(shown, EmptyMap)
                    ELSE [shown EXCEPT !.fetch = [step |-> "participants", data |-> data,
                                                  at |-> 1, pMap |-> EmptyMap]]
              /\ UNCHANGED failures
       \/ \* the outer catch: setError(...), then finally setLoading(false)
          /\ failures < MaxFailures
          /\ failures' = failures + 1
          /\ vendorPage' = [vendorPage EXCEPT
                 !.error = Some("Failed to load dashboard data. Please try refreshing."),
                 !.loading = FALSE, !.fetch = NoFetch]
    /\ UNCHANGED <<storeVars, rated>>
    /\ UNCHANGED pageVars

\* one turn of the loop over the fetched workshops settles
vendorParticipantsFetched ==
    /\ vendorPage.fetch.step = "participants"
    /\ LET f == vendorPage.fetch
           ws == f.data[f.at]
           after(pMap) ==
               IF f.at = Len(f.data) THEN FetchFinished(vendorPage, pMap)
               ELSE [vendorPage EXCEPT !.fetch.at = f.at + 1, !.fetch.pMap = pMap]
       IN  \/ /\ vendorPage' = after((ws.id :> Participants(dbRegistrations, dbUsers, ws.id, 1))
                                        @@ f.pMap)
              /\ UNCHANGED failures
           \/ \* the inner catch logs and leaves pMap[ws.id] unset
              /\ failures < MaxFailures
              /\ failures' = failures + 1
              /\ vendorPage' = after(f.pMap)
    /\ UNCHANGED <<storeVars, rated>>
    /\ UNCHANGED pageVars

-----------------------------------------------------------------------------
(* src/app/vendor/page.tsx: the modal, handleCreate, handleEdit and delete *)

MaxDashboardOps == 1
MaxLogged == 2

\* resetForm: the form fields after it (selectedWorkshop is reset beside them)
EmptyForm == IdleVendorPage.form

\* the dashboard is rendered and no alert() blocks it
DashboardUp == ~vendorPage.loading /\ vendorPage.error = None /\ vendorPage.alert = None

\* the modal is rendered over the cards
ModalUp == DashboardUp /\ (vendorPage.isCreateOpen \/ vendorPage.isEditOpen)

\* the dashboard changes and nothing else does
DashboardOnly ==
    /\ UNCHANGED <<storeVars, failures, rated>>
    /\ UNCHANGED pageVars

\* onClick of "+ Create Workshop": resetForm(); setIsCreateOpen(true)
openCreateModal ==
    /\ DashboardUp /\ ~ModalUp
    /\ vendorPage' = [vendorPage EXCEPT !.form = EmptyForm, !.selectedWorkshop = None,
                                        !.isCreateOpen = TRUE]
    /\ DashboardOnly

\* openEditModal(ws): the form takes the fields of the card's workshop
openEditModal(i) ==
    /\ DashboardUp /\ ~ModalUp
    /\ i \in DOMAIN vendorPage.workshops
    /\ LET ws == vendorPage.workshops[i]
       IN  vendorPage' = [vendorPage EXCEPT
               !.selectedWorkshop = Some(ws),
               !.form = [title |-> ws.title, description |-> ws.description,
                         price |-> ws.price, category |-> ws.category, date |-> ws.date,
                         whatsappLink |-> ws.whatsappLink, image |-> FALSE],
               !.isEditOpen = TRUE]
    /\ DashboardOnly

\* onClick of Cancel: both modals close, resetForm()
cancelModal ==
    /\ ModalUp
    /\ vendorPage' = [vendorPage EXCEPT !.isCreateOpen = FALSE, !.isEditOpen = FALSE,
                                        !.form = EmptyForm, !.selectedWorkshop = None]
    /\ DashboardOnly

\* the onChange handlers of the modal's inputs, run one after the other as the
\* vendor fills the form: setTitle, setCategory, setPrice (Number(e.target.value)
\* of an input of type="number" with neither min nor step), setDate,
\* setWhatsappLink, setDescription and handleImageChange
formTyped(data) ==
    /\ ModalUp
    /\ vendorPage' = [vendorPage EXCEPT !.form = data]
    /\ DashboardOnly

\* the user closes the alert() dialog of the dashboard
dismissDashboardAlert ==
    /\ vendorPage.alert # None
    /\ vendorPage' = [vendorPage EXCEPT !.alert = None]
    /\ DashboardOnly

\* onClick of Retry on the error screen: window.location.reload()
retryClicked ==
    /\ ~vendorPage.loading /\ vendorPage.error # None
    /\ vendorPage' = [IdleVendorPage EXCEPT !.ops = [i \in DOMAIN vendorPage.ops |->
                                                  [vendorPage.ops[i] EXCEPT !.live = FALSE]]]
    /\ DashboardOnly

\* a request a dashboard handler awaits
DashboardOp(kind, id, data) == [kind |-> kind, id |-> id, data |-> data, live |-> TRUE]

\* handleCreate up to its await
handleCreate ==
    /\ ModalUp /\ vendorPage.isCreateOpen
    /\ LET f == vendorPage.form
       IN  IF f.title = <<>> \/ f.description = "" \/ f.category = "" \/ f.date = ""
           THEN \* alert("Please fill all fields."); return
                vendorPage' = [vendorPage EXCEPT !.alert = Some("Please fill all fields.")]
           ELSE /\ Len(vendorPage.ops) < MaxDashboardOps
                /\ Len(vendorPage.consoleErrors) < MaxLogged
                /\ vendorPage' = [vendorPage EXCEPT
                       !.ops = Append(@, DashboardOp("create", 0, f))]
    /\ DashboardOnly

\* handleEdit up to its await
handleEdit ==
    /\ ModalUp /\ vendorPage.isEditOpen
    /\ vendorPage.selectedWorkshop # None
    /\ Len(vendorPage.ops) < MaxDashboardOps
    /\ Len(vendorPage.consoleErrors) < MaxLogged
    /\ vendorPage' = [vendorPage EXCEPT
           !.ops = Append(@, DashboardOp("edit", The(vendorPage.selectedWorkshop).id,
                                         vendorPage.form))]
    /\ DashboardOnly

\* onClick of the trash button of a card, confirm() accepted, up to its await
deleteClicked(i) ==
    /\ DashboardUp /\ ~ModalUp
    /\ i \in DOMAIN vendorPage.workshops
    /\ Len(vendorPage.ops) < MaxDashboardOps
    /\ vendorPage' = [vendorPage EXCEPT
           !.ops = Append(@, DashboardOp("delete", vendorPage.workshops[i].id, EmptyForm))]
    /\ DashboardOnly

\* the oldest awaited request of the dashboard is of this kind
DashboardAwaits(kind) == vendorPage.ops # <<>> /\ Head(vendorPage.ops).kind = kind

\* await fetchData() of a handler whose request succeeded: fetchData up to its await
Refetching(page) ==
    [page EXCEPT !.loading = TRUE, !.error = None,
                 !.fetch = [NoFetch EXCEPT !.step = "workshops"]]

\* the continuation of handleCreate and handleEdit after a successful await:
\* resetForm(); setIsCreateOpen(false) or setIsEditOpen(false); await fetchData()
Submitted(page) ==
    Refetching([page EXCEPT !.form = EmptyForm, !.selectedWorkshop = None,
                            !.isCreateOpen = IF Head(page.ops).kind = "create" THEN FALSE ELSE @,
                            !.isEditOpen = IF Head(page.ops).kind = "edit" THEN FALSE ELSE @,
                            !.ops = Tail(@)])

\* the continuation after a request of a page that has been reloaded: none
Settled(page) == IF Head(page.ops).live THEN Submitted(page) ELSE [page EXCEPT !.ops = Tail(@)]

\* a catch that would also run resetForm() and close the modal
CaughtResetting(page, logged, notice) ==
    IF Head(page.ops).live
    THEN [page EXCEPT !.consoleErrors = @ \o logged, !.alert = Some(notice), !.ops = Tail(@),
                      !.form = EmptyForm, !.selectedWorkshop = None,
                      !.isCreateOpen = FALSE, !.isEditOpen = FALSE]
    ELSE [page EXCEPT !.ops = Tail(@)]

\* the catch of handleCreate and handleEdit: console.error(...); alert(...)
Caught(page, logged, notice) ==
    IF Head(page.ops).live
    THEN [page EXCEPT !.consoleErrors = @ \o logged, !.alert = Some(notice), !.ops = Tail(@)]
    ELSE [page EXCEPT !.ops = Tail(@)]

\* handleCreate after its await: createWorkshop added the document
handleCreateDone ==
    /\ DashboardAwaits("create")
    /\ created < MaxWorkshops
    /\ LET data == Head(vendorPage.ops).data
       IN  /\ created' = created + 1
           /\ dbWorkshops' = (created + 1 :> NewWorkshopDoc("v1", data,
                                  IF data.image THEN "url" ELSE "")) @@ dbWorkshops
    /\ vendorPage' = Settled(vendorPage)
    /\ UNCHANGED <<dbUsers, dbRegistrations, failures, rated>>
    /\ UNCHANGED pageVars

\* handleCreate after its await: createWorkshop threw, at the upload or at addDoc
handleCreateFailed(upload) ==
    /\ DashboardAwaits("create")
    /\ upload => Head(vendorPage.ops).data.image
    /\ failures < MaxFailures
    /\ failures' = failures + 1
    /\ vendorPage' = Caught(vendorPage,
           (IF upload THEN <<"createWorkshop: Image upload failed:">> ELSE <<>>)
               \o <<"VendorDashboard: Error creating workshop:">>,
           "Failed to create workshop.")
    /\ UNCHANGED <<storeVars, rated>>
    /\ UNCHANGED pageVars

\* handleEdit after its await: updateWorkshop updated the document
handleEditDone ==
    /\ DashboardAwaits("edit")
    /\ LET op == Head(vendorPage.ops)
       IN  /\ op.id \in DOMAIN dbWorkshops
           /\ dbWorkshops' = [dbWorkshops EXCEPT ![op.id] =
                  EditedDoc(@, op.data, IF op.data.image THEN "url2" ELSE "")]
    /\ vendorPage' = Settled(vendorPage)
    /\ UNCHANGED <<dbUsers, dbRegistrations, created, failures, rated>>
    /\ UNCHANGED pageVars

\* handleEdit after its await: updateWorkshop threw, at the upload or at
\* updateDoc (which also throws when the document is gone)
handleEditFailed(upload) ==
    /\ DashboardAwaits("edit")
    /\ upload => Head(vendorPage.ops).data.image
    /\ IF ~upload /\ Head(vendorPage.ops).id \notin DOMAIN dbWorkshops
       THEN UNCHANGED failures
       ELSE failures < MaxFailures /\ failures' = failures + 1
    /\ vendorPage' = Caught(vendorPage,
           (IF upload THEN <<"updateWorkshop: Image upload failed:">> ELSE <<>>)
               \o <<"VendorDashboard: Error updating workshop:">>,
           "Failed to update workshop.")
    /\ UNCHANGED <<storeVars, rated>>
    /\ UNCHANGED pageVars

\* the delete handler after await deleteWorkshop(ws.id): await fetchData()
deleteDone ==
    /\ DashboardAwaits("delete")
    /\ LET id == Head(vendorPage.ops).id
       IN  dbWorkshops' = [i \in (DOMAIN dbWorkshops) \ {id} |-> dbWorkshops[i]]
    /\ vendorPage' = IF Head(vendorPage.ops).live
                     THEN Refetching([vendorPage EXCEPT !.ops = Tail(@)])
                     ELSE [vendorPage EXCEPT !.ops = Tail(@)]
    /\ UNCHANGED <<dbUsers, dbRegistrations, created, failures, rated>>
    /\ UNCHANGED pageVars

\* the delete handler after its await: deleteWorkshop threw; the handler has no
\* catch, so the rejection goes unhandled and fetchData is not reached
deleteFailed ==
    /\ DashboardAwaits("delete")
    /\ failures < MaxFailures
    /\ failures' = failures + 1
    /\ vendorPage' = [vendorPage EXCEPT !.ops = Tail(@)]
    /\ UNCHANGED <<storeVars, rated>>
    /\ UNCHANGED pageVars

\* what the vendor types into the form
TypedForms ==
    { [title |-> <<"J", "a", "m">>, description |-> "d2", price |-> 0 - 5,
       category |-> "Music", date |-> "2025-02-02", whatsappLink |-> "", image |-> FALSE],
      [title |-> <<"J", "a", "m">>, description |-> "d2", price |-> 2501,
       category |-> "Music", date |-> "2025-02-02", whatsappLink |-> "wa", image |-> TRUE] }

\* the clicks and the keystrokes on the dashboard, and its requests settling
DashboardHandlers ==
    \/ openCreateModal
    \/ \E i \in WorkshopIds : openEditModal(i)
    \/ cancelModal
    \/ \E data \in TypedForms : formTyped(data)
    \/ dismissDashboardAlert
    \/ retryClicked
    \/ handleCreate
    \/ handleCreateDone
    \/ \E upload \in BOOLEAN : handleCreateFailed(upload)
    \/ handleEdit
    \/ handleEditDone
    \/ \E upload \in BOOLEAN : handleEditFailed(upload)
    \/ \E i \in WorkshopIds : deleteClicked(i)
    \/ deleteDone
    \/ deleteFailed

-----------------------------------------------------------------------------
(* The whole marketplace, from an empty store *)

Next ==
    \/ \E v \in Vendors, data \in Forms : createWorkshop(v, data)
    \/ \E id \in WorkshopIds, data \in Forms : updateWorkshop(id, data)
    \/ \E id \in WorkshopIds : deleteWorkshop(id)
    \/ \E c \in Clients : authStateChanged(c)
    \/ \E c \in Clients : userDataLoaded(c)
    \/ \E c \in Clients : fetchData(c)
    \/ \E c \in Clients : dismissAlert(c)
    \/ \E c \in Clients, w \in WorkshopIds, r \in StarInputs : handleRate(c, w, r)
    \/ \E c \in Clients : handleRateWritten(c)
    \/ \E c \in Clients : handleRateFailed(c)
    \/ \E c \in Clients, w \in WorkshopIds : toggleFavorite(c, w)
    \/ \E c \in Clients : toggleFavoriteWritten(c)
    \/ \E c \in Clients : toggleFavoriteFailed(c)
    \/ \E c \in Clients, w \in WorkshopIds : handleRegisterClick(c, w)
    \/ \E c \in Clients : registerForWorkshop(c)
    \/ dashboardFetchData
    \/ vendorWorkshopsFetched
    \/ vendorParticipantsFetched
    \/ DashboardHandlers

Spec == Init /\ [][Next]_vars

-----------------------------------------------------------------------------
(* Rating: one workshop is on offer, both users have registered for it and  *)
(* have the browsing page open; they rate while the vendor creates, edits   *)
(* and deletes.                                                             *)

FirstForm == CHOOSE f \in Forms : ~f.image

InitRating ==
    /\ dbWorkshops = (1 :> NewWorkshopDoc("v1", FirstForm, ""))
    /\ dbUsers = [u \in Users |-> [favorites |-> {}, registeredWorkshops |-> {1}]]
    /\ dbRegistrations = <<Registration(1, "u1"), Registration(1, "u2")>>
    /\ created = 1
    /\ user = [c \in Clients |-> AccountOf(c)]
    /\ userData = [c \in Clients |-> Some(dbUsers[AccountOf(c)])]
    /\ workshops = [c \in Clients |-> SnapshotOf(dbWorkshops, DOMAIN dbWorkshops)]
    /\ heap = [c \in Clients |-> FetchedHeap(dbWorkshops)]
    /\ calls = [c \in Clients |-> <<>>]
    /\ alertOpen = [c \in Clients |-> None]
    /\ consoleErrors = [c \in Clients |-> <<>>]
    /\ navigation = [c \in Clients |-> AtWorkshops]
    /\ lastHandler = NoHandler
    /\ failures = 0
    /\ rated = 0
    /\ criteria = [c \in Clients |-> DefaultCriteria]
    /\ filteredView = [c \in Clients |-> FilterSeq(criteria[c], workshops[c])]
    /\ vendorPage = IdleVendorPage

NextRating ==
    \/ \E id \in WorkshopIds : deleteWorkshop(id)
    \/ \E c \in Clients : fetchData(c)
    \/ \E c \in Clients, w \in WorkshopIds, r \in StarInputs : handleRate(c, w, r)
    \/ \E c \in Clients : handleRateWritten(c)
    \/ \E c \in Clients : handleRateFailed(c)

SpecRating == InitRating /\ [][NextRating]_vars

-----------------------------------------------------------------------------
(* The store under rating pages and the vendor: the vendor creates a second *)
(* workshop, edits and deletes while the two users rate the first.          *)

MaxStoreRates == 2

NextStore ==
    \/ \E v \in Vendors : createWorkshop(v, FirstForm)
    \/ \E id \in WorkshopIds, data \in Forms \ {FirstForm} : updateWorkshop(id, data)
    \/ \E id \in WorkshopIds : deleteWorkshop(id)
    \/ \E c \in Clients : fetchData(c)
    \/ \E c \in Clients, w \in WorkshopIds, r \in StarInputs :
          rated < MaxStoreRates /\ handleRate(c, w, r)
    \/ \E c \in Clients : handleRateWritten(c)
    \/ \E c \in Clients : handleRateFailed(c)

SpecStore == InitRating /\ [][NextStore]_vars

-----------------------------------------------------------------------------
(* A single rating page: only the page of u1 is in use; the workshop has    *)
(* the ratings earlier sessions left.                                        *)

SeedRatings == {EmptyMap, ("u2" :> 5), ("u1" :> 4) @@ ("u2" :> 5)}

SeededDoc(m) ==
    IF m = EmptyMap THEN NewWorkshopDoc("v1", FirstForm, "")
    ELSE RatedDoc(NewWorkshopDoc("v1", FirstForm, ""), RatingUpdate(m))

InitSingle ==
    /\ \E m \in SeedRatings : dbWorkshops = (1 :> SeededDoc(m))
    /\ dbUsers = [u \in Users |-> [favorites |-> {}, registeredWorkshops |-> {1}]]
    /\ dbRegistrations = <<Registration(1, "u1"), Registration(1, "u2")>>
    /\ created = 1
    /\ user = [c \in Clients |-> AccountOf(c)]
    /\ userData = [c \in Clients |-> Some(dbUsers[AccountOf(c)])]
    /\ workshops = [c \in Clients |-> SnapshotOf(dbWorkshops, DOMAIN dbWorkshops)]
    /\ heap = [c \in Clients |-> FetchedHeap(dbWorkshops)]
    /\ calls = [c \in Clients |-> <<>>]
    /\ alertOpen = [c \in Clients |-> None]
    /\ consoleErrors = [c \in Clients |-> <<>>]
    /\ navigation = [c \in Clients |-> AtWorkshops]
    /\ lastHandler = NoHandler
    /\ failures = 0
    /\ rated = 0
    /\ criteria = [c \in Clients |-> DefaultCriteria]
    /\ filteredView = [c \in Clients |-> FilterSeq(criteria[c], workshops[c])]
    /\ vendorPage = IdleVendorPage

NextSingle ==
    \/ \E id \in WorkshopIds : deleteWorkshop(id)
    \/ fetchData("c1")
    \/ \E w \in WorkshopIds, r \in StarInputs : handleRate("c1", w, r)
    \/ handleRateWritten("c1")
    \/ handleRateFailed("c1")

SpecSingle == InitSingle /\ [][NextSingle]_vars

-----------------------------------------------------------------------------
(* One browsing page whose session signs in and out, registers for the     *)
(* workshop, marks it as favorite and rates it.                             *)

MaxPageRates == 1

InitPage ==
    /\ dbWorkshops = (1 :> NewWorkshopDoc("v1", FirstForm, ""))
    /\ dbUsers = [u \in Users |-> [favorites |-> {}, registeredWorkshops |-> {}]]
    /\ dbRegistrations = <<>>
    /\ created = 1
    /\ user = [c \in Clients |-> NoUser]
    /\ userData = [c \in Clients |-> None]
    /\ workshops = [c \in Clients |-> SnapshotOf(dbWorkshops, DOMAIN dbWorkshops)]
    /\ heap = [c \in Clients |-> FetchedHeap(dbWorkshops)]
    /\ calls = [c \in Clients |-> <<>>]
    /\ alertOpen = [c \in Clients |-> None]
    /\ consoleErrors = [c \in Clients |-> <<>>]
    /\ navigation = [c \in Clients |-> AtWorkshops]
    /\ lastHandler = NoHandler
    /\ failures = 0
    /\ rated = 0
    /\ criteria = [c \in Clients |-> DefaultCriteria]
    /\ filteredView = [c \in Clients |-> FilterSeq(criteria[c], workshops[c])]
    /\ vendorPage = IdleVendorPage

NextPage ==
    \/ authStateChanged("c1")
    \/ userDataLoaded("c1")
    \/ fetchData("c1")
    \/ dismissAlert("c1")
    \/ \E w \in WorkshopIds, r \in StarInputs : rated < MaxPageRates /\ handleRate("c1", w, r)
    \/ handleRateWritten("c1")
    \/ handleRateFailed("c1")
    \/ \E w \in WorkshopIds : toggleFavorite("c1", w)
    \/ toggleFavoriteWritten("c1")
    \/ toggleFavoriteFailed("c1")
    \/ \E w \in WorkshopIds : handleRegisterClick("c1", w)
    \/ registerForWorkshop("c1")

SpecPage == InitPage /\ [][NextPage]_vars

-----------------------------------------------------------------------------
(* One browsing page whose visitor works the search box and the selects     *)
(* over a list of two workshops.                                            *)

\* workshop documents as the store holds them, location and ageGroup included
ListedDoc(title, category, vendorId, location, ageGroup, price, m) ==
    LET d == [NewWorkshopDoc(vendorId, FirstForm, "") EXCEPT
                  !.title = title, !.category = category, !.price = price,
                  !.location = location, !.ageGroup = ageGroup]
    IN  IF m = EmptyMap THEN d ELSE RatedDoc(d, RatingUpdate(m))

ListedDocs ==
    { ListedDoc(<<"A", "r", "t">>, "Art", "v1", "Colombo", "Kids", 2500, EmptyMap),
      ListedDoc(<<"J", "a", "m">>, "Music", "v2", Undefined, Undefined, 2501,
                ("u1" :> 4) @@ ("u2" :> 5)),
      ListedDoc(<<"A", "R", "T">>, "Art", "v1", "Kandy", "Teans", 30001, ("u1" :> 3)) }

SearchTexts == {<<>>, <<"a">>, <<"A", "R">>, <<"x">>}
CategoryOptions == {"All", "Art", "Music"}
VendorOptions == {"All", "v1", "v2"}
AgeGroupOptions == {"All", "Kids", "Teans"}
PriceOptions == {"All"} \cup PriceBuckets
RatingOptions == {"All", "3", "4", "5"}

InitListed(docs) ==
    /\ dbWorkshops \in [1..2 -> docs]
    /\ dbUsers = [u \in Users |-> [favorites |-> {}, registeredWorkshops |-> {}]]
    /\ dbRegistrations = <<>>
    /\ created = 2
    /\ user = [c \in Clients |-> NoUser]
    /\ userData = [c \in Clients |-> None]
    /\ workshops = [c \in Clients |-> SnapshotOf(dbWorkshops, DOMAIN dbWorkshops)]
    /\ heap = [c \in Clients |-> FetchedHeap(dbWorkshops)]
    /\ calls = [c \in Clients |-> <<>>]
    /\ alertOpen = [c \in Clients |-> None]
    /\ consoleErrors = [c \in Clients |-> <<>>]
    /\ navigation = [c \in Clients |-> AtWorkshops]
    /\ lastHandler = NoHandler
    /\ failures = 0
    /\ rated = 0
    /\ criteria = [c \in Clients |-> DefaultCriteria]
    /\ filteredView = [c \in Clients |-> FilterSeq(criteria[c], workshops[c])]
    /\ vendorPage = IdleVendorPage

InitFilter == InitListed(ListedDocs)

NextFilter ==
    \/ \E text \in SearchTexts : setSearch("c1", text)
    \/ \E v \in CategoryOptions : setCategory("c1", v)
    \/ \E v \in VendorOptions : setVendorFilter("c1", v)
    \/ \E v \in AgeGroupOptions : setAgeGroup("c1", v)
    \/ \E v \in {"All", "", "Colombo", "Kandy"} : setLocation("c1", v)
    \/ \E v \in PriceOptions : setPriceRange("c1", v)
    \/ \E v \in RatingOptions : setRatingFilter("c1", v)

SpecFilter == InitFilter /\ [][NextFilter]_vars

-----------------------------------------------------------------------------
(* One browsing page whose visitor picks price ranges over workshops priced *)
(* at and next to the boundaries of the ranges.                             *)

BoundaryPrices == {0, 2500, 2501, 5000, 5001, 10000, 10001, 20000, 20001, 30000, 30001}

PricedDocs ==
    {ListedDoc(<<"J", "a", "m">>, "Music", "v1", Undefined, Undefined, p, EmptyMap) :
        p \in BoundaryPrices}

InitPrice == InitListed(PricedDocs)

NextPrice ==
    \/ \E text \in {<<>>, <<"a">>} : setSearch("c1", text)
    \/ \E v \in PriceOptions : setPriceRange("c1", v)

SpecPrice == InitPrice /\ [][NextPrice]_vars

-----------------------------------------------------------------------------
(* The dashboard of vendor v1 over a store that holds registrations of every *)
(* status.                                                                    *)

MaxVendorRegistrations == 3

\* the statuses a registration document holds, Undefined for a missing field
StatusValues == {"pending", "approved", "rejected", Undefined}

InitVendor ==
    /\ dbWorkshops =
           (1 :> ListedDoc(<<"A", "r", "t">>, "Art", "v1", Undefined, Undefined, 1000, EmptyMap))
        @@ (2 :> NewWorkshopDoc("v1", FirstForm, ""))
    /\ dbUsers = [u \in Users |-> [favorites |-> {}, registeredWorkshops |-> {}]]
    /\ dbRegistrations \in
           [1..MaxVendorRegistrations ->
               {[Registration(w, "u1") EXCEPT !.status = st] :
                    w \in 1..2, st \in StatusValues}]
    /\ created = 2
    /\ user = [c \in Clients |-> NoUser]
    /\ userData = [c \in Clients |-> None]
    /\ workshops = [c \in Clients |-> <<>>]
    /\ heap = [c \in Clients |-> [o \in ObjIds |-> EmptyMap]]
    /\ calls = [c \in Clients |-> <<>>]
    /\ alertOpen = [c \in Clients |-> None]
    /\ consoleErrors = [c \in Clients |-> <<>>]
    /\ navigation = [c \in Clients |-> AtWorkshops]
    /\ lastHandler = NoHandler
    /\ failures = 0
    /\ rated = 0
    /\ criteria = [c \in Clients |-> DefaultCriteria]
    /\ filteredView = [c \in Clients |-> <<>>]
    /\ vendorPage = IdleVendorPage

NextVendor ==
    \/ dashboardFetchData
    \/ vendorWorkshopsFetched
    \/ vendorParticipantsFetched
    \/ \E id \in WorkshopIds : deleteWorkshop(id)

SpecVendor == InitVendor /\ [][NextVendor]_vars

\* every request fetchData awaits settles, with a result or with an error
SpecVendorLive ==
    /\ SpecVendor
    /\ WF_vars(vendorWorkshopsFetched)
    /\ WF_vars(vendorParticipantsFetched)

-----------------------------------------------------------------------------
(* The dashboard of vendor v1 at work: one workshop, already rated by u1, is *)
(* in the store when the dashboard mounts.                                   *)

InitDashboard ==
    /\ dbWorkshops = (1 :> SeededDoc(("u1" :> 4)))
    /\ dbUsers = [u \in Users |-> [favorites |-> {}, registeredWorkshops |-> {}]]
    /\ dbRegistrations = <<>>
    /\ created = 1
    /\ user = [c \in Clients |-> NoUser]
    /\ userData = [c \in Clients |-> None]
    /\ workshops = [c \in Clients |-> <<>>]
    /\ heap = [c \in Clients |-> [o \in ObjIds |-> EmptyMap]]
    /\ calls = [c \in Clients |-> <<>>]
    /\ alertOpen = [c \in Clients |-> None]
    /\ consoleErrors = [c \in Clients |-> <<>>]
    /\ navigation = [c \in Clients |-> AtWorkshops]
    /\ lastHandler = NoHandler
    /\ failures = 0
    /\ rated = 0
    /\ criteria = [c \in Clients |-> DefaultCriteria]
    /\ filteredView = [c \in Clients |-> <<>>]
    /\ vendorPage = IdleVendorPage

NextDashboard ==
    \/ vendorPage.loading /\ dashboardFetchData
    \/ vendorWorkshopsFetched
    \/ vendorParticipantsFetched
    \/ DashboardHandlers

SpecDashboard == InitDashboard /\ [][NextDashboard]_vars

-----------------------------------------------------------------------------
(* Properties of rating *)

\* a stored document whose rating is the mean of its ratings and whose
\* ratingCount is their number
ConsistentDoc(d) ==
    /\ IsSome(d.ratings) /\ IsSome(d.rating) /\ IsSome(d.ratingCount)
    /\ The(d.rating).den > 0
    /\ The(d.rating).num * CountValues(The(d.ratings))
           = SumValues(The(d.ratings)) * The(d.rating).den
    /\ The(d.ratingCount) = CountValues(The(d.ratings))

\* the same of a record of a page, whose ratings is the object h[ref]
ConsistentRecord(h, rec) ==
    /\ IsSome(rec.ratings) /\ IsSome(rec.rating) /\ IsSome(rec.ratingCount)
    /\ The(rec.rating).den > 0
    /\ The(rec.rating).num * CountValues(h[The(rec.ratings)])
           = SumValues(h[The(rec.ratings)]) * The(rec.rating).den
    /\ The(rec.ratingCount) = CountValues(h[The(rec.ratings)])

\* C1: after every successful handleRate both the stored document and the
\* page's record of the workshop have rating = mean(ratings) and
\* ratingCount = |ratings|
C1_RatedConsistent ==
    [][\A c \in Clients :
          (handleRateWritten(c) /\ Head(calls[c]).live) =>
              LET w == Head(calls[c]).workshopId
              IN  /\ ConsistentDoc(dbWorkshops'[w])
                  /\ \A i \in DOMAIN workshops'[c] :
                        workshops'[c][i].id = w =>
                            ConsistentRecord(heap'[c], workshops'[c][i])]_vars

\* the ratings map and the count a stored document holds, {} and 0 when absent
RatingsOf(d) == IF IsSome(d.ratings) THEN The(d.ratings) ELSE EmptyMap
CountOf(d) == IF IsSome(d.ratingCount) THEN The(d.ratingCount) ELSE 0

\* C2: handleRate is an upsert keyed by the user id: the map it sends holds the
\* clicked value under the user's id, and with a single page the write that
\* lands changes the stored map at that key only and leaves ratingCount as it
\* was unless the user had no entry, when it grows by exactly 1
C2_Upsert ==
    [][/\ \A c \in Clients, w \in WorkshopIds, r \in StarInputs :
             (handleRate(c, w, r) /\ user[c] # NoUser) =>
                 calls'[c][Len(calls'[c])].update.ratings[user[c]] = r
       /\ \A c \in Clients :
             handleRateWritten(c) =>
                 LET call == Head(calls[c])
                     u == call.uid
                     old == RatingsOf(dbWorkshops[call.workshopId])
                     new == RatingsOf(dbWorkshops'[call.workshopId])
                 IN  /\ DOMAIN new = (DOMAIN old) \cup {u}
                     /\ new[u] = call.update.ratings[u]
                     /\ \A k \in (DOMAIN old) \ {u} : new[k] = old[k]
                     /\ CountOf(dbWorkshops'[call.workshopId]) =
                            IF u \in DOMAIN old
                            THEN CountOf(dbWorkshops[call.workshopId])
                            ELSE CountOf(dbWorkshops[call.workshopId]) + 1]_vars

\* C2 witness: {u1: 4, u2: 5} became {u1: 2, u2: 5}, ratingCount 2, rating 3.5
C2_Witness ==
    /\ rated > 0
    /\ 1 \in DOMAIN dbWorkshops
    /\ dbWorkshops[1].ratings = Some(("u1" :> 2) @@ ("u2" :> 5))
    /\ dbWorkshops[1].ratingCount = Some(2)
    /\ IsSome(dbWorkshops[1].rating)
    /\ SameQuotient(The(dbWorkshops[1].rating), [num |-> 7, den |-> 2])

\* C3: every stored workshop document has ratingCount = |ratings| and
\* rating = mean(ratings), and has neither when it has no ratings
C3_StoreConsistent ==
    \A id \in DOMAIN dbWorkshops :
        IF IsSome(dbWorkshops[id].ratings)
        THEN ConsistentDoc(dbWorkshops[id])
        ELSE dbWorkshops[id].rating = None /\ dbWorkshops[id].ratingCount = None

\* C3 witness: an edited workshop rated by both users, beside a second workshop
C3_Witness ==
    /\ created = 2
    /\ \E id \in DOMAIN dbWorkshops :
          /\ dbWorkshops[id].imageUrl = "url2"
          /\ DOMAIN RatingsOf(dbWorkshops[id]) = Users

\* C4: a rating write that lands replaces the stored ratings, rating and
\* ratingCount by what the page sent, whatever the store held
C4_WholesaleWrite ==
    [][\A c \in Clients :
          handleRateWritten(c) =>
              LET call == Head(calls[c])
                  d == dbWorkshops'[call.workshopId]
              IN  /\ d.ratings = Some(call.update.ratings)
                  /\ d.rating = Some(call.update.rating)
                  /\ d.ratingCount = Some(call.update.ratingCount)]_vars

\* C4 witness (the lost update): each user rated once on their own page, both
\* writes succeeded, and the stored map holds only the second one
C4_Witness ==
    /\ rated = 2 /\ failures = 0
    /\ \A c \in Clients :
          /\ calls[c] = <<>> /\ consoleErrors[c] = <<>>
          /\ \E i \in DOMAIN workshops[c] :
                /\ workshops[c][i].id = 1
                /\ IsSome(workshops[c][i].rating)
                /\ AccountOf(c) \in DOMAIN heap[c][The(workshops[c][i].ratings)]
    /\ 1 \in DOMAIN dbWorkshops
    /\ DOMAIN RatingsOf(dbWorkshops[1]) = {"u2"}
    /\ dbWorkshops[1].ratingCount = Some(1)


\* every page variable but the open alert and the record of the handler that
\* returned: the list, its rating maps, the user document, the requests sent
PageState(c) == <<workshops[c], heap[c], userData[c], calls[c], filteredView[c],
                  criteria[c], consoleErrors[c]>>

\* C10: with no user signed in, handleRate and toggleFavorite send no write and
\* leave the store and the page's list as they were, and handleRegisterClick
\* also keeps the page where it is instead of following the link
C10_UnauthenticatedNoEffect ==
    [][\A c \in Clients, w \in WorkshopIds :
          /\ \A r \in StarInputs :
                (handleRate(c, w, r) /\ user[c] = NoUser) =>
                    /\ storeVars' = storeVars
                    /\ PageState(c)' = PageState(c)
          /\ (toggleFavorite(c, w) /\ user[c] = NoUser) =>
                    /\ storeVars' = storeVars
                    /\ PageState(c)' = PageState(c)
          /\ (handleRegisterClick(c, w) /\ user[c] = NoUser) =>
                    /\ storeVars' = storeVars
                    /\ PageState(c)' = PageState(c)
                    /\ navigation'[c] = navigation[c]
                    /\ navigation[c] = AtWorkshops]_vars

\* C10 witness: a signed-out session clicked a star of a workshop its page still
\* shows as registered, and handleRate returned
C10_Witness ==
    /\ lastHandler = Left("c1", "handleRate", "returned", 1)
    /\ user["c1"] = NoUser
    /\ calls["c1"] = <<>>


-----------------------------------------------------------------------------
(* Properties of the filtered view *)

\* text t occurs in text s
Occurs(t, s) ==
    \E start \in 1..(Len(s) + 1) :
        \A j \in 1..Len(t) : start + j - 1 <= Len(s) /\ s[start + j - 1] = t[j]

\* lower-case letters for the letters the titles and search texts use
Lowered(s) ==
    [i \in DOMAIN s |->
        IF s[i] \in {"A", "J", "R", "T", "M"}
        THEN [A |-> "a", J |-> "j", R |-> "r", T |-> "t", M |-> "m"][s[i]]
        ELSE s[i]]

\* the bounds of the named price ranges: lower exclusive, upper inclusive
RangeLower ==
    [x \in {"2500-5000", "5000-10000", "10000-20000", "20000-30000"} |->
        CASE x = "2500-5000" -> 2500 [] x = "5000-10000" -> 5000
          [] x = "10000-20000" -> 10000 [] x = "20000-30000" -> 20000]
RangeUpper ==
    [x \in {"2500-5000", "5000-10000", "10000-20000", "20000-30000"} |->
        CASE x = "2500-5000" -> 5000 [] x = "5000-10000" -> 10000
          [] x = "10000-20000" -> 20000 [] x = "20000-30000" -> 30000]

InRange(sel, price) ==
    CASE sel = "0-2500" -> price <= 2500
      [] sel = "30000+" -> price > 30000
      [] sel \in DOMAIN RangeLower -> RangeLower[sel] < price /\ price <= RangeUpper[sel]

Threshold == [x \in {"1", "2", "3", "4", "5"} |->
                 CASE x = "1" -> 1 [] x = "2" -> 2 [] x = "3" -> 3 [] x = "4" -> 4 [] x = "5" -> 5]

\* the rating of a record is at least n, an absent rating counting as 0
RatedAtLeast(w, n) ==
    IF w.rating = None THEN 0 >= n
    ELSE The(w.rating).num >= n * The(w.rating).den

\* every predicate but the price predicate
PassesOthers(crit, w) ==
    /\ Occurs(Lowered(crit.search), Lowered(w.title))
    /\ crit.category = "All" \/ w.category = crit.category
    /\ crit.vendorFilter = "All" \/ w.vendorId = crit.vendorFilter
    /\ crit.location = "All" \/ w.location = crit.location
    /\ crit.ageGroup = "All" \/ w.ageGroup = crit.ageGroup
    /\ crit.ratingFilter = "All" \/ RatedAtLeast(w, Threshold[crit.ratingFilter])

Shown(c, w) == \E j \in DOMAIN filteredView[c] : filteredView[c][j] = w

\* C5: a record of the list is in the filtered view iff its title contains the
\* search text (case ignored), each of category, vendor, location and age group
\* equals the selected value or the selector is "All", its price lies in the
\* selected range or the selector is "All", and its rating (0 when absent) is at
\* least the threshold or the selector is "All"
C5_ShownIffAllHold ==
    \A c \in Clients : \A i \in DOMAIN workshops[c] :
        LET w == workshops[c][i]
        IN  Shown(c, w) <=>
                /\ PassesOthers(criteria[c], w)
                /\ criteria[c].priceRange = "All" \/ InRange(criteria[c].priceRange, w.price)

\* C5 witness: search, category, price range and threshold are all set and show
\* one of two workshops
C5_Witness ==
    /\ criteria["c1"].search = <<"A", "R">>
    /\ criteria["c1"].category = "Art"
    /\ criteria["c1"].priceRange = "30000+"
    /\ criteria["c1"].ratingFilter = "3"
    /\ Len(workshops["c1"]) = 2
    /\ Len(filteredView["c1"]) = 1
    /\ filteredView["c1"][1].price = 30001

\* a is b with some elements left out
RECURSIVE IsSubsequence(_, _)
IsSubsequence(a, b) ==
    IF a = <<>> THEN TRUE
    ELSE IF b = <<>> THEN FALSE
    ELSE IF Head(a) = Head(b) THEN IsSubsequence(Tail(a), Tail(b))
    ELSE IsSubsequence(a, Tail(b))

\* C6: the filtered view is the list with some records left out, in the order
\* of the list; it is the whole list when the search is empty and every selector
\* is "All"; and rendering it changes neither the list nor any criterion but the
\* one that was set
C6_ViewOfList ==
    /\ [](\A c \in Clients :
            /\ IsSubsequence(filteredView[c], workshops[c])
            /\ (/\ criteria[c].search = <<>>
                /\ \A f \in (DOMAIN criteria[c]) \ {"search"} : criteria[c][f] = "All")
                   => filteredView[c] = workshops[c])
    /\ [][\A c \in Clients :
            criteria'[c] # criteria[c] =>
                /\ workshops' = workshops /\ heap' = heap
                /\ Cardinality({f \in DOMAIN criteria[c] :
                                   criteria'[c][f] # criteria[c][f]}) = 1
                /\ filteredView'[c] = FilterSeq(criteria'[c], workshops'[c])]_vars

\* C6 witness: a search text that both titles contain shows both workshops, in
\* the order of the list
C6_Witness ==
    /\ criteria["c1"].search = <<"a">>
    /\ Len(workshops["c1"]) = 2
    /\ workshops["c1"][1].price # workshops["c1"][2].price
    /\ filteredView["c1"] = workshops["c1"]

\* C7: "0-2500" shows a record iff price <= 2500, each of the four middle ranges
\* iff lower < price <= upper, "30000+" iff price > 30000, and every price lies
\* in exactly one of the six named ranges
C7_PriceRanges ==
    \A c \in Clients : \A i \in DOMAIN workshops[c] :
        LET w == workshops[c][i]
        IN  /\ (criteria[c].priceRange \in PriceBuckets /\ PassesOthers(criteria[c], w)) =>
                   (Shown(c, w) <=> InRange(criteria[c].priceRange, w.price))
            /\ \A b \in PriceBuckets : matchesPrice(b, w.price) <=> InRange(b, w.price)
            /\ Cardinality({b \in PriceBuckets : matchesPrice(b, w.price)}) = 1

\* C7 witness: with "0-2500" selected, of workshops priced 2500 and 2501 the page
\* shows the first only
C7_Witness ==
    /\ criteria["c1"].priceRange = "0-2500"
    /\ Len(workshops["c1"]) = 2
    /\ workshops["c1"][1].price = 2500 /\ workshops["c1"][2].price = 2501
    /\ filteredView["c1"] = <<workshops["c1"][1]>>

\* price selectors that name no range
UnnamedSelectors == {"All", "", "2500", "0-2501", "30000"}

\* C8: a price selector that is none of the six named ranges, "All" included,
\* matches every price, and then the price selector keeps no record out of the view
C8_UnnamedRangeMatchesAll ==
    \A c \in Clients : \A i \in DOMAIN workshops[c] :
        LET w == workshops[c][i]
        IN  /\ \A sel \in UnnamedSelectors : matchesPrice(sel, w.price)
            /\ \A sel \in UnnamedSelectors :
                   matches([criteria[c] EXCEPT !.priceRange = sel], w) <=>
                       PassesOthers(criteria[c], w)
            /\ criteria[c].priceRange \notin PriceBuckets =>
                   (Shown(c, w) <=> PassesOthers(criteria[c], w))

\* C8 witness: with the price selector back on "All" and a search text set, the
\* page shows workshops priced 0 and 30001
C8_Witness ==
    /\ criteria["c1"].priceRange = "All"
    /\ criteria["c1"].search = <<"a">>
    /\ Len(filteredView["c1"]) = 2
    /\ filteredView["c1"][1].price = 0 /\ filteredView["c1"][2].price = 30001


-----------------------------------------------------------------------------
(* Properties of the dashboard *)

\* the participants of a workshop the dashboard holds that are counted
CountedOf(id) ==
    IF id \in DOMAIN vendorPage.participantsMap
    THEN {k \in DOMAIN vendorPage.participantsMap[id] :
             LET st == vendorPage.participantsMap[id][k].status
             IN  st \in {"approved", "pending", Undefined, ""}}
    ELSE {}

\* the sum of price times counted participants over the workshops at the
\* positions in S
RECURSIVE RevenueOf(_)
RevenueOf(S) ==
    IF S = {} THEN 0
    ELSE LET i == CHOOSE x \in S : TRUE
             ws == vendorPage.workshops[i]
         IN  ws.price * Cardinality(CountedOf(ws.id)) + RevenueOf(S \ {i})

\* C9: the dashboard's total revenue is the sum over its workshops of price times
\* the number of loaded participants whose status is approved, pending or absent;
\* other participants and workshops without a participant list add nothing
C9_TotalRevenue == totalRevenue = RevenueOf(DOMAIN vendorPage.workshops)

\* C9 witness: the workshop priced 1000 with participants pending, approved and
\* rejected, alone on the dashboard, gives 2000
C9_Witness ==
    /\ ~vendorPage.loading
    /\ Len(vendorPage.workshops) = 1
    /\ vendorPage.workshops[1].price = 1000
    /\ 1 \in DOMAIN vendorPage.participantsMap
    /\ Len(vendorPage.participantsMap[1]) = 3
    /\ [k \in 1..3 |-> vendorPage.participantsMap[1][k].status]
           = <<"pending", "approved", "rejected">>
    /\ totalRevenue = 2000

-----------------------------------------------------------------------------
(* Properties of failure handling *)

\* C11: every attempt to rate, to mark as favorite or to register made with no
\* user signed in leaves an alert open on the page when the handler returns
C11_UnauthenticatedNotice ==
    [][\A c \in Clients, w \in WorkshopIds :
          /\ \A r \in StarInputs :
                (handleRate(c, w, r) /\ user[c] = NoUser) => IsSome(alertOpen'[c])
          /\ (toggleFavorite(c, w) /\ user[c] = NoUser) => IsSome(alertOpen'[c])
          /\ (handleRegisterClick(c, w) /\ user[c] = NoUser) => IsSome(alertOpen'[c])]_vars

\* C12: every failed write of a rating, a favorite, a created, an edited or a
\* deleted workshop is logged and leaves a failure notice open, and the handler
\* sends no further request
C12_FailureLoggedSurfacedNoRetry ==
    [][/\ \A c \in Clients :
             ((handleRateFailed(c) \/ toggleFavoriteFailed(c)) /\ Head(calls[c]).live) =>
                 /\ Len(consoleErrors'[c]) > Len(consoleErrors[c])
                 /\ IsSome(alertOpen'[c])
                 /\ calls'[c] = Tail(calls[c])
       /\ (/\ \/ \E upload \in BOOLEAN : handleCreateFailed(upload)
              \/ \E upload \in BOOLEAN : handleEditFailed(upload)
              \/ deleteFailed
           /\ Head(vendorPage.ops).live) =>
                 /\ Len(vendorPage'.consoleErrors) > Len(vendorPage.consoleErrors)
                 /\ IsSome(vendorPage'.alert)
                 /\ vendorPage'.ops = Tail(vendorPage.ops)]_vars

-----------------------------------------------------------------------------
(* Properties of the vendor's writes *)

\* C13: an edit that lands leaves the ratings, rating and ratingCount of every
\* stored workshop as they were, with or without a new image
C13_EditKeepsRatings ==
    [][(handleEditDone \/ \E id \in WorkshopIds, data \in Forms : updateWorkshop(id, data)) =>
          /\ DOMAIN dbWorkshops' = DOMAIN dbWorkshops
          /\ \A id \in DOMAIN dbWorkshops :
                /\ dbWorkshops'[id].ratings = dbWorkshops[id].ratings
                /\ dbWorkshops'[id].rating = dbWorkshops[id].rating
                /\ dbWorkshops'[id].ratingCount = dbWorkshops[id].ratingCount]_vars

\* C13 witness: the rated workshop was edited with a new image and still has
\* u1's rating
C13_Witness ==
    /\ 1 \in DOMAIN dbWorkshops
    /\ dbWorkshops[1].imageUrl = "url2"
    /\ dbWorkshops[1].title = <<"J", "a", "m">>
    /\ dbWorkshops[1].ratings = Some(("u1" :> 4))
    /\ dbWorkshops[1].ratingCount = Some(1)

-----------------------------------------------------------------------------
(* Properties of who may rate *)

\* C14: handleRate sends a rating write only for a signed-in user whose user
\* document on the page lists the workshop as registered, the write sets that
\* user's entry to the clicked value, every value of a ratings map that is sent
\* or stored is one of 1..5, and a stored rating lies between 1 and 5
C14_RatingsGated ==
    /\ [](\A id \in DOMAIN dbWorkshops :
            IsSome(dbWorkshops[id].ratings) =>
                /\ \A k \in DOMAIN The(dbWorkshops[id].ratings) :
                      The(dbWorkshops[id].ratings)[k] \in Stars
                /\ The(dbWorkshops[id].rating).den <= The(dbWorkshops[id].rating).num
                /\ The(dbWorkshops[id].rating).num <= 5 * The(dbWorkshops[id].rating).den)
    /\ [][\A c \in Clients, w \in WorkshopIds, r \in StarInputs :
            (handleRate(c, w, r) /\ calls'[c] # calls[c]) =>
                LET sent == calls'[c][Len(calls'[c])].update.ratings
                IN  /\ user[c] # NoUser
                    /\ IsSome(userData[c])
                    /\ w \in The(userData[c]).registeredWorkshops
                    /\ sent[user[c]] = r
                    /\ \A k \in DOMAIN sent : sent[k] \in Stars]_vars

\* C14 witness: u1 signed in, registered for the workshop and rated it
C14_Witness ==
    /\ 1 \in DOMAIN dbWorkshops
    /\ IsSome(dbWorkshops[1].ratings)
    /\ DOMAIN The(dbWorkshops[1].ratings) = {"u1"}
    /\ 1 \in dbUsers["u1"].registeredWorkshops
    /\ Len(dbRegistrations) = 1

-----------------------------------------------------------------------------
(* Properties of the dashboard's handlers *)

\* C15: every workshop document in the store, created or edited through the
\* dashboard, has a price of 0 or more
C15_PriceNonNegative == \A id \in DOMAIN dbWorkshops : dbWorkshops[id].price >= 0

\* C16: when the write of a handleRate call fails, the page's list is as it was
\* before the call: once the failed call, the only one running, is over, a
\* record of the workshop that carries a ratings map still has
\* rating = mean(ratings) and ratingCount = |ratings|
C16_FailedRateLeavesList ==
    [][\A c \in Clients :
          (handleRateFailed(c) /\ Head(calls[c]).live /\ Len(calls[c]) = 1) =>
              \A i \in DOMAIN workshops'[c] :
                  (/\ workshops'[c][i].id = Head(calls[c]).workshopId
                   /\ IsSome(workshops'[c][i].ratings)) =>
                      ConsistentRecord(heap'[c], workshops'[c][i])]_vars

\* the modal flag of the handler whose request is the oldest awaited one
ModalFlagOf(page, kind) == IF kind = "create" THEN page.isCreateOpen ELSE page.isEditOpen

\* C17: when the image upload of createWorkshop or updateWorkshop fails, no
\* document is created or modified and the handler's catch raises the failure
\* notice while leaving the modal flags, the selected workshop and the form
\* fields as they are; when the request succeeds the form is reset, the
\* handler's modal is closed and the list is fetched again
C17_UploadFailureKeepsForm ==
    [][/\ (handleCreateFailed(TRUE) \/ handleEditFailed(TRUE)) =>
             /\ dbWorkshops' = dbWorkshops /\ created' = created
             /\ Head(vendorPage.ops).live =>
                   /\ vendorPage'.form = vendorPage.form
                   /\ vendorPage'.isCreateOpen = vendorPage.isCreateOpen
                   /\ vendorPage'.isEditOpen = vendorPage.isEditOpen
                   /\ vendorPage'.selectedWorkshop = vendorPage.selectedWorkshop
                   /\ IsSome(vendorPage'.alert)
       /\ ((handleCreateDone \/ handleEditDone) /\ Head(vendorPage.ops).live) =>
             /\ vendorPage'.form = EmptyForm
             /\ ~ModalFlagOf(vendorPage', Head(vendorPage.ops).kind)
             /\ vendorPage'.loading
             /\ vendorPage'.fetch.step = "workshops"]_vars

\* an image upload failed while creating: the notice is up, both errors are
\* logged, the create modal is still open with the typed form, and the store
\* holds only the seeded workshop
C17_Witness ==
    /\ vendorPage.alert = Some("Failed to create workshop.")
    /\ vendorPage.consoleErrors = <<"createWorkshop: Image upload failed:",
                                    "VendorDashboard: Error creating workshop:">>
    /\ vendorPage.isCreateOpen
    /\ vendorPage.form.image
    /\ vendorPage.form.price = 2501
    /\ DOMAIN dbWorkshops = {1}

-----------------------------------------------------------------------------
(* Properties of registration *)

\* a registration document of user uid for workshop w is in the store
HasRegistration(w, uid) ==
    \E i \in DOMAIN dbRegistrations :
        dbRegistrations[i].workshopId = w /\ dbRegistrations[i].userId = uid

\* C18: in every reachable state a workshop id is in a user's
\* registeredWorkshops only if a registration document of that workshop and
\* user exists, and every registration document registerForWorkshop adds has
\* status "pending"
C18_RegisteredOnlyWithDocument ==
    /\ [](\A uid \in DOMAIN dbUsers :
             \A w \in dbUsers[uid].registeredWorkshops : HasRegistration(w, uid))
    /\ [][\A c \in Clients :
             (registerForWorkshop(c) /\ dbRegistrations' # dbRegistrations) =>
                 dbRegistrations'[Len(dbRegistrations')].status = "pending"]_vars

\* registerForWorkshop failed between its two writes: the registration
\* document of u1 for workshop 1 is stored and u1's registeredWorkshops is empty
C18_Witness ==
    /\ navigation["c1"].at = "register"
    /\ navigation["c1"].step = "failed"
    /\ HasRegistration(1, "u1")
    /\ dbUsers["u1"].registeredWorkshops = {}

-----------------------------------------------------------------------------
(* Properties of the dashboard's fetchData *)

\* the participants map fetchData holds after a step: the state once the run
\* is over, the loop's pMap while it runs
MapAfter(page) == IF page.fetch.step = "idle" THEN page.participantsMap ELSE page.fetch.pMap

\* C19: every run of the dashboard's fetchData sets loading to true, clears
\* error, and eventually ends with loading false, whether it succeeds or fails;
\* error is set exactly when fetching the vendor's workshops failed; a failure
\* while fetching the participants of one workshop leaves only that workshop
\* without a participant list, sets no error and lets the loop go on with the
\* remaining workshops
C19_FetchSettles ==
    /\ [][dashboardFetchData => (vendorPage'.loading /\ vendorPage'.error = None)]_vars
    /\ (vendorPage.fetch.step # "idle")
           ~> (vendorPage.fetch.step = "idle" /\ ~vendorPage.loading)
    /\ [][(vendorPage.fetch.step # "idle" /\ vendorPage'.fetch.step = "idle") =>
              ~vendorPage'.loading]_vars
    /\ [][vendorWorkshopsFetched =>
              (IsSome(vendorPage'.error) <=> failures' # failures)]_vars
    /\ [][vendorParticipantsFetched =>
              LET f == vendorPage.fetch
                  ws == f.data[f.at]
              IN  /\ vendorPage'.error = None
                  /\ vendorPage'.workshops = vendorPage.workshops
                  /\ \A id \in DOMAIN f.pMap :
                        id \in DOMAIN MapAfter(vendorPage')
                            /\ MapAfter(vendorPage')[id] = f.pMap[id]
                  /\ DOMAIN MapAfter(vendorPage') \subseteq DOMAIN f.pMap \cup {ws.id}
                  /\ ws.id \in DOMAIN MapAfter(vendorPage') <=> failures' = failures
                  /\ IF f.at < Len(f.data)
                     THEN /\ vendorPage'.fetch.step = "participants"
                          /\ vendorPage'.fetch.at = f.at + 1
                          /\ vendorPage'.loading
                     ELSE vendorPage'.fetch.step = "idle"]_vars

\* a run over two workshops is over: fetching the participants of workshop 1
\* failed, workshop 2 has its list, no error is set and loading is false
C19_Witness ==
    /\ vendorPage.fetch.step = "idle"
    /\ ~vendorPage.loading
    /\ vendorPage.error = None
    /\ Len(vendorPage.workshops) = 2
    /\ DOMAIN vendorPage.participantsMap = {2}
    /\ failures = 1

====
